---- MODULE Spec2Model ----
(***************************************************************************)
(* Model of the MacLabel parser (Sources/CMacLabelParser/maclabel_parser.c *)
(* and include/maclabel_parser.h).                                         *)
(*                                                                         *)
(* A buffer is a sequence of bytes (integers 0..255).  A C pointer into    *)
(* the buffer is modelled by its offset from `data`: offset p names the    *)
(* byte d[p + 1], and offset Len(d) is the one-past-the-end pointer.       *)
(* A NUL-terminated C string is the sequence of its bytes before the       *)
(* terminator; reading it at its length gives NUL.                         *)
(***************************************************************************)
EXTENDS Integers, Sequences, FiniteSets, TLC

VARIABLES
    data,          \* the caller's label buffer (immutable)
    key,           \* the caller's NUL-terminated target key (bytes before the NUL)
    parser,        \* struct maclabel_parser: [data, end] as offsets
    entry,         \* struct maclabel_entry, the output of maclabel_parser_next
    ret,           \* what the last maclabel_parser_next returned: "none", "true", "false"
    yielded,       \* the entries the caller's while-loop has received so far
    called,        \* which of the whole-buffer operations have been called
    count_ret,     \* result of maclabel_count
    validate_ret,  \* result of maclabel_validate
    find_ret,      \* result of maclabel_find: [ret, value, value_len]
    linear_ret,    \* result of maclabel_find_linear: [ret, value, value_len]
    cmp_arg,       \* arguments (key, key_len) of a compare_key call
    cmp_ret,       \* result of compare_key
    passes,        \* the entry sequences of the iterations that ran to exhaustion
    resets,        \* the cursor offsets at which the caller re-initialised the cursor
    streq_ret,     \* result of maclabel_streq
    op,            \* per caller: the operation it called
    pc,            \* per caller: where in the operation it is
    parsers,       \* the struct maclabel_parser objects, one per caller
    frame,         \* per caller: the automatic variables of its call
    overlapped,    \* some caller took a step while another was inside a call
    match_ret,     \* outcome of maclabel_find_linear's exact-match test on a slice
    late_calls,    \* number of maclabel_parser_next calls made after a false return
    trace          \* what the last traced maclabel_parser_next call did on the stack

vars == <<data, key, parser, entry, ret, yielded, called, count_ret,
          validate_ret, find_ret, linear_ret, cmp_arg, cmp_ret, passes, resets,
          streq_ret, op, pc, parsers, frame, overlapped, match_ret, late_calls,
          trace>>

\* the variables of the callers that run step by step
callvars == <<op, pc, parsers, frame, overlapped>>

\* the variables of the single caller whose calls are whole steps
wholevars == <<parser, entry, ret, yielded, called, count_ret, validate_ret,
               find_ret, linear_ret, cmp_arg, cmp_ret, passes, resets, streq_ret,
               match_ret, late_calls, trace>>

\* the observations of single calls
latevars == <<match_ret, late_calls, trace>>

----------------------------------------------------------------------------
(* Bytes the code names. *)

NUL == 0
NL == 10
EQ == 61
NULL == -1

(* Bounds of the model. *)

MaxLen == 6
MaxLines == 3
MaxKeyLen == 2
MaxCmpLen == 3
MaxResets == 2
MaxLiveLen == 4
NumCallers == 2
MaxLateCalls == 2
MaxSortedLines == 9
StackBound == 2
MaxCallLines == 2

----------------------------------------------------------------------------
(* Memory access. *)

ByteAt(d, p) == d[p + 1]

\* target[i] of a NUL-terminated string
TargetAt(t, i) == IF i < Len(t) THEN t[i + 1] ELSE NUL

----------------------------------------------------------------------------
(* static helpers *)

RECURSIVE find_char(_, _, _, _)
find_char(d, s, end, c) ==
    IF s < end
    THEN IF ByteAt(d, s) = c THEN s ELSE find_char(d, s + 1, end, c)
    ELSE NULL

RECURSIVE str_len_from(_, _)
str_len_from(s, len) ==
    IF TargetAt(s, len) # NUL THEN str_len_from(s, len + 1) ELSE len

str_len(s) == str_len_from(s, 0)

----------------------------------------------------------------------------
(* maclabel_parser_init / maclabel_parser_next *)

maclabel_parser_init(d, len) == [data |-> 0, end |-> len]

\* the skip loop written as an if: at most one '\n' skipped
SkipNewlines_once(d, p, end) ==
    IF p < end /\ ByteAt(d, p) = NL THEN p + 1 ELSE p

RECURSIVE SkipNewlines(_, _, _)
SkipNewlines(d, p, end) ==
    IF p < end /\ ByteAt(d, p) = NL THEN SkipNewlines(d, p + 1, end) ELSE p

\* maclabel_parser_next giving up at a line without '=' instead of skipping it
RECURSIVE maclabel_parser_next_stops(_, _, _)
maclabel_parser_next_stops(d, p, e) ==
    LET p0 == SkipNewlines(d, p.data, p.end)
    IN  IF p0 >= p.end
        THEN [ret |-> FALSE, parser |-> [p EXCEPT !.data = p0], entry |-> e]
        ELSE LET line_start == p0
                 nl == find_char(d, line_start, p.end, NL)
                 line_end == IF nl = NULL THEN p.end ELSE nl
                 p1 == [p EXCEPT !.data = IF nl = NULL THEN p.end ELSE nl + 1]
                 eq == find_char(d, line_start, line_end, EQ)
             IN  IF eq = NULL
                 THEN [ret |-> FALSE, parser |-> p1, entry |-> e]
                 ELSE [ret |-> TRUE,
                       parser |-> p1,
                       entry |-> [key |-> line_start,
                                  key_len |-> eq - line_start,
                                  value |-> eq + 1,
                                  value_len |-> line_end - (eq + 1)]]

\* maclabel_parser_next leaving the '=' in the value
RECURSIVE maclabel_parser_next_keeps_eq(_, _, _)
maclabel_parser_next_keeps_eq(d, p, e) ==
    LET p0 == SkipNewlines(d, p.data, p.end)
    IN  IF p0 >= p.end
        THEN [ret |-> FALSE, parser |-> [p EXCEPT !.data = p0], entry |-> e]
        ELSE LET line_start == p0
                 nl == find_char(d, line_start, p.end, NL)
                 line_end == IF nl = NULL THEN p.end ELSE nl
                 p1 == [p EXCEPT !.data = IF nl = NULL THEN p.end ELSE nl + 1]
                 eq == find_char(d, line_start, line_end, EQ)
             IN  IF eq = NULL
                 THEN maclabel_parser_next_keeps_eq(d, p1, e)
                 ELSE [ret |-> TRUE,
                       parser |-> p1,
                       entry |-> [key |-> line_start,
                                  key_len |-> eq - line_start,
                                  value |-> eq,
                                  value_len |-> line_end - eq]]

\* maclabel_parser_next leaving the cursor at the line it yields
RECURSIVE maclabel_parser_next_no_advance(_, _, _)
maclabel_parser_next_no_advance(d, p, e) ==
    LET p0 == SkipNewlines(d, p.data, p.end)
    IN  IF p0 >= p.end
        THEN [ret |-> FALSE, parser |-> [p EXCEPT !.data = p0], entry |-> e]
        ELSE LET line_start == p0
                 nl == find_char(d, line_start, p.end, NL)
                 line_end == IF nl = NULL THEN p.end ELSE nl
                 p1 == [p EXCEPT !.data = IF nl = NULL THEN p.end ELSE nl + 1]
                 eq == find_char(d, line_start, line_end, EQ)
             IN  IF eq = NULL
                 THEN maclabel_parser_next_no_advance(d, p1, e)
                 ELSE [ret |-> TRUE,
                       parser |-> [p EXCEPT !.data = line_start],
                       entry |-> [key |-> line_start,
                                  key_len |-> eq - line_start,
                                  value |-> eq + 1,
                                  value_len |-> line_end - (eq + 1)]]

\* maclabel_parser_next ending the iteration at a last line without '\n'
RECURSIVE maclabel_parser_next_needs_newline(_, _, _)
maclabel_parser_next_needs_newline(d, p, e) ==
    LET p0 == SkipNewlines(d, p.data, p.end)
    IN  IF p0 >= p.end
        THEN [ret |-> FALSE, parser |-> [p EXCEPT !.data = p0], entry |-> e]
        ELSE LET line_start == p0
                 nl == find_char(d, line_start, p.end, NL)
                 p1 == [p EXCEPT !.data = IF nl = NULL THEN p.end ELSE nl + 1]
                 eq == find_char(d, line_start, nl, EQ)
             IN  IF nl = NULL
                 THEN [ret |-> FALSE, parser |-> p1, entry |-> e]
                 ELSE IF eq = NULL
                      THEN maclabel_parser_next_needs_newline(d, p1, e)
                      ELSE [ret |-> TRUE,
                            parser |-> p1,
                            entry |-> [key |-> line_start,
                                       key_len |-> eq - line_start,
                                       value |-> eq + 1,
                                       value_len |-> nl - (eq + 1)]]

\* maclabel_parser_next stepping the cursor once more at the end check
RECURSIVE maclabel_parser_next_overruns(_, _, _)
maclabel_parser_next_overruns(d, p, e) ==
    LET p0 == SkipNewlines(d, p.data, p.end)
    IN  IF p0 >= p.end
        THEN [ret |-> FALSE, parser |-> [p EXCEPT !.data = p0 + 1], entry |-> e]
        ELSE LET line_start == p0
                 nl == find_char(d, line_start, p.end, NL)
                 line_end == IF nl = NULL THEN p.end ELSE nl
                 p1 == [p EXCEPT !.data = IF nl = NULL THEN p.end ELSE nl + 1]
                 eq == find_char(d, line_start, line_end, EQ)
             IN  IF eq = NULL
                 THEN maclabel_parser_next_overruns(d, p1, e)
                 ELSE [ret |-> TRUE,
                       parser |-> p1,
                       entry |-> [key |-> line_start,
                                  key_len |-> eq - line_start,
                                  value |-> eq + 1,
                                  value_len |-> line_end - (eq + 1)]]

RECURSIVE maclabel_parser_next(_, _, _)
maclabel_parser_next(d, p, e) ==
    LET p0 == SkipNewlines(d, p.data, p.end)
    IN  IF p0 >= p.end
        THEN [ret |-> FALSE, parser |-> [p EXCEPT !.data = p0], entry |-> e]
        ELSE LET line_start == p0
                 nl == find_char(d, line_start, p.end, NL)
                 line_end == IF nl = NULL THEN p.end ELSE nl
                 p1 == [p EXCEPT !.data = IF nl = NULL THEN p.end ELSE nl + 1]
             IN  IF line_start = line_end
                 THEN maclabel_parser_next(d, p1, e)
                 ELSE LET eq == find_char(d, line_start, line_end, EQ)
                      IN  IF eq = NULL
                          THEN maclabel_parser_next(d, p1, e)
                          ELSE [ret |-> TRUE,
                                parser |-> p1,
                                entry |-> [key |-> line_start,
                                           key_len |-> eq - line_start,
                                           value |-> eq + 1,
                                           value_len |-> line_end - (eq + 1)]]

\* an automatic struct maclabel_entry that nothing has written yet
NoEntry == [key |-> NULL, key_len |-> 0, value |-> NULL, value_len |-> 0]

----------------------------------------------------------------------------
(* maclabel_streq *)

RECURSIVE maclabel_streq_loop(_, _, _, _, _)
maclabel_streq_loop(d, s1, s1_len, s2, i) ==
    IF i < s1_len /\ TargetAt(s2, i) # NUL
    THEN IF ByteAt(d, s1 + i) # TargetAt(s2, i) THEN FALSE
         ELSE maclabel_streq_loop(d, s1, s1_len, s2, i + 1)
    ELSE i = s1_len /\ TargetAt(s2, i) = NUL

\* maclabel_streq without the test that s2 ends where the slice ends
RECURSIVE maclabel_streq_prefix_loop(_, _, _, _, _)
maclabel_streq_prefix_loop(d, s1, s1_len, s2, i) ==
    IF i < s1_len /\ TargetAt(s2, i) # NUL
    THEN IF ByteAt(d, s1 + i) # TargetAt(s2, i) THEN FALSE
         ELSE maclabel_streq_prefix_loop(d, s1, s1_len, s2, i + 1)
    ELSE i = s1_len

maclabel_streq_prefix(d, s1, s1_len, s2) == maclabel_streq_prefix_loop(d, s1, s1_len, s2, 0)

maclabel_streq(d, s1, s1_len, s2) == maclabel_streq_loop(d, s1, s1_len, s2, 0)

----------------------------------------------------------------------------
\* what one external call of maclabel_parser_next does besides its result:
\* calls, the number of activations it enters (itself and every
\* `return maclabel_parser_next(parser, entry)` below it); depth, the number
\* of them live at once when that statement is compiled as a call; and
\* whether the test line_start == line_end was ever true
RECURSIVE next_trace(_, _)
next_trace(d, p) ==
    LET p0 == SkipNewlines(d, p.data, p.end)
    IN  IF p0 >= p.end
        THEN [calls |-> 1, depth |-> 1, empty_line |-> FALSE]
        ELSE LET line_start == p0
                 nl == find_char(d, line_start, p.end, NL)
                 line_end == IF nl = NULL THEN p.end ELSE nl
                 p1 == [p EXCEPT !.data = IF nl = NULL THEN p.end ELSE nl + 1]
                 t == next_trace(d, p1)
             IN  IF line_start = line_end
                 THEN [calls |-> t.calls + 1, depth |-> t.depth + 1, empty_line |-> TRUE]
                 ELSE IF find_char(d, line_start, line_end, EQ) = NULL
                      THEN [calls |-> t.calls + 1, depth |-> t.depth + 1,
                            empty_line |-> t.empty_line]
                      ELSE [calls |-> 1, depth |-> 1, empty_line |-> FALSE]

\* the caller's loop of the header's usage note: every entry received until
\* maclabel_parser_next returns false
RECURSIVE iterate_loop(_, _, _, _)
iterate_loop(d, p, e, out) ==
    LET r == maclabel_parser_next(d, p, e)
    IN  IF r.ret THEN iterate_loop(d, r.parser, r.entry, Append(out, r.entry)) ELSE out

iterate(d) == iterate_loop(d, maclabel_parser_init(d, Len(d)), NoEntry, <<>>)

----------------------------------------------------------------------------
(* compare_key *)

\* a plain (signed) char compared without the cast
SChar(c) == IF c % 256 >= 128 THEN (c % 256) - 256 ELSE c % 256

\* the (unsigned char) cast of lines 36 and 38
UChar(c) == c % 256

RECURSIVE compare_key_loop(_, _, _, _, _)
compare_key_loop(d, k, key_len, target, i) ==
    IF i < key_len /\ TargetAt(target, i) # NUL
    THEN IF UChar(ByteAt(d, k + i)) < UChar(TargetAt(target, i)) THEN -1
         ELSE IF UChar(ByteAt(d, k + i)) > UChar(TargetAt(target, i)) THEN 1
         ELSE compare_key_loop(d, k, key_len, target, i + 1)
    ELSE IF i = key_len
         THEN IF TargetAt(target, i) = NUL THEN 0 ELSE -1
         ELSE 1

\* compare_key taking a key that is a proper prefix of the target for equal
RECURSIVE compare_key_prefix_equal_loop(_, _, _, _, _)
compare_key_prefix_equal_loop(d, k, key_len, target, i) ==
    IF i < key_len /\ TargetAt(target, i) # NUL
    THEN IF UChar(ByteAt(d, k + i)) < UChar(TargetAt(target, i)) THEN -1
         ELSE IF UChar(ByteAt(d, k + i)) > UChar(TargetAt(target, i)) THEN 1
         ELSE compare_key_prefix_equal_loop(d, k, key_len, target, i + 1)
    ELSE IF i = key_len THEN 0 ELSE 1

compare_key_prefix_equal(d, k, key_len, target) ==
    compare_key_prefix_equal_loop(d, k, key_len, target, 0)

compare_key(d, k, key_len, target) == compare_key_loop(d, k, key_len, target, 0)

----------------------------------------------------------------------------
(* maclabel_find_linear *)

\* the caller's *value / *value_len before a lookup writes them
NoValue == [value |-> NULL, value_len |-> 0]

\* the inner for-loop starting at i = 1
RECURSIVE KeyBytesMatch_skips_first(_, _, _, _, _)
KeyBytesMatch_skips_first(d, e, k, key_len, i) ==
    IF i < key_len
    THEN IF i > 0 /\ ByteAt(d, e.key + i) # TargetAt(k, i) THEN FALSE
         ELSE KeyBytesMatch_skips_first(d, e, k, key_len, i + 1)
    ELSE TRUE

\* the inner for-loop of lines 127-133
RECURSIVE KeyBytesMatch(_, _, _, _, _)
KeyBytesMatch(d, e, k, key_len, i) ==
    IF i < key_len
    THEN IF ByteAt(d, e.key + i) # TargetAt(k, i) THEN FALSE
         ELSE KeyBytesMatch(d, e, k, key_len, i + 1)
    ELSE TRUE

\* the exact-match test of maclabel_find_linear on the slice (k, len):
\* entry.key_len == key_len, then the byte loop
exact_match(d, k, len, t) ==
    LET key_len == str_len(t)
    IN  len = key_len /\ KeyBytesMatch(d, [key |-> k, key_len |-> len], t, key_len, 0)

RECURSIVE find_linear_loop(_, _, _, _, _, _)
find_linear_loop(d, p, e, k, key_len, out) ==
    LET r == maclabel_parser_next(d, p, e)
    IN  IF ~r.ret
        THEN [ret |-> FALSE, value |-> out.value, value_len |-> out.value_len]
        ELSE IF r.entry.key_len = key_len /\ KeyBytesMatch(d, r.entry, k, key_len, 0)
             THEN [ret |-> TRUE, value |-> r.entry.value,
                   value_len |-> r.entry.value_len]
             ELSE find_linear_loop(d, r.parser, r.entry, k, key_len, out)

maclabel_find_linear(d, len, k, out) ==
    find_linear_loop(d, maclabel_parser_init(d, len), NoEntry, k, str_len(k), out)

----------------------------------------------------------------------------
(* maclabel_find *)

MAX_ENTRIES == 64

\* the scan for the end of the line stopping at '=' as well
RECURSIVE SkipLine_stops_at_eq(_, _, _)
SkipLine_stops_at_eq(d, p, end) ==
    IF p < end /\ ByteAt(d, p) # NL /\ ByteAt(d, p) # EQ
    THEN SkipLine_stops_at_eq(d, p + 1, end)
    ELSE p

\* while (p < end && *p != '\n') p++;
RECURSIVE SkipLine(_, _, _)
SkipLine(d, p, end) ==
    IF p < end /\ ByteAt(d, p) # NL THEN SkipLine(d, p + 1, end) ELSE p

\* the index-building loop; lines is the filled part of lines[], line_count = Len(lines)
RECURSIVE BuildIndex(_, _, _, _)
BuildIndex(d, p, end, lines) ==
    IF p < end /\ Len(lines) < MAX_ENTRIES
    THEN LET p0 == SkipNewlines(d, p, end)
         IN  IF p0 >= end
             THEN lines
             ELSE LET p1 == SkipLine(d, p0, end)
                      p2 == IF p1 < end THEN p1 + 1 ELSE p1
                  IN  BuildIndex(d, p2, end, Append(lines, p0))
    ELSE lines

\* the binary-search loop
RECURSIVE BinarySearch(_, _, _, _, _, _, _)
BinarySearch(d, end, lines, lo, hi, k, out) ==
    IF lo < hi
    THEN LET mid == lo + (hi - lo) \div 2
             line == lines[mid + 1]
             nl == find_char(d, line, end, NL)
             line_end == IF nl = NULL THEN end ELSE nl
             eq == find_char(d, line, line_end, EQ)
         IN  IF eq = NULL
             THEN BinarySearch(d, end, lines, mid + 1, hi, k, out)
             ELSE LET entry_key_len == eq - line
                      cmp == compare_key(d, line, entry_key_len, k)
                  IN  IF cmp = 0
                      THEN [ret |-> TRUE, value |-> eq + 1,
                            value_len |-> line_end - (eq + 1)]
                      ELSE IF cmp < 0
                           THEN BinarySearch(d, end, lines, mid + 1, hi, k, out)
                           ELSE BinarySearch(d, end, lines, lo, mid, k, out)
    ELSE [ret |-> FALSE, value |-> out.value, value_len |-> out.value_len]

\* maclabel_find searching the first MAX_ENTRIES lines when the index is full
maclabel_find_no_fallback(d, len, k, out) ==
    LET lines == BuildIndex(d, 0, len, <<>>)
    IN  BinarySearch(d, len, lines, 0, Len(lines), k, out)

maclabel_find(d, len, k, out) ==
    LET end == len
        lines == BuildIndex(d, 0, end, <<>>)
        line_count == Len(lines)
    IN  IF line_count >= MAX_ENTRIES
        THEN maclabel_find_linear(d, len, k, out)
        ELSE BinarySearch(d, end, lines, 0, line_count, k, out)

----------------------------------------------------------------------------
(* maclabel_count *)

\* maclabel_count counting every non-blank line
RECURSIVE count_lines_loop(_, _, _, _)
count_lines_loop(d, p, end, count) ==
    LET p0 == SkipNewlines(d, p, end)
    IN  IF p0 >= end
        THEN count
        ELSE LET p1 == SkipLine(d, p0, end)
             IN  count_lines_loop(d, IF p1 < end THEN p1 + 1 ELSE p1, end, count + 1)

maclabel_count_lines(d, len) == count_lines_loop(d, 0, len, 0)

RECURSIVE count_loop(_, _, _, _)
count_loop(d, p, e, count) ==
    LET r == maclabel_parser_next(d, p, e)
    IN  IF r.ret THEN count_loop(d, r.parser, r.entry, count + 1) ELSE count

maclabel_count(d, len) == count_loop(d, maclabel_parser_init(d, len), NoEntry, 0)

----------------------------------------------------------------------------
(* maclabel_validate *)

\* the embedded-NUL check left out
HasEmbeddedNull_unchecked(d, line_start, line_end) == FALSE

\* for (c = line_start; c < line_end; c++) if (*c == '\0') return false;
HasEmbeddedNull(d, line_start, line_end) ==
    find_char(d, line_start, line_end, NUL) # NULL

RECURSIVE validate_loop(_, _, _)
validate_loop(d, p, end) ==
    IF p < end
    THEN IF ByteAt(d, p) = NL
         THEN validate_loop(d, p + 1, end)
         ELSE LET line_start == p
                  nl == find_char(d, p, end, NL)
                  line_end == IF nl = NULL THEN end ELSE nl
                  eq == find_char(d, line_start, line_end, EQ)
              IN  IF HasEmbeddedNull(d, line_start, line_end) THEN FALSE
                  ELSE IF eq = NULL THEN FALSE
                  ELSE IF eq = line_start THEN FALSE
                  ELSE validate_loop(d, IF line_end < end THEN line_end + 1 ELSE end, end)
    ELSE TRUE

maclabel_validate(d, len) == validate_loop(d, 0, len)

----------------------------------------------------------------------------
(* The operations one loop iteration at a time, for callers whose calls overlap *)

Callers == 1..NumCallers

Ops == {"iterate", "count", "validate", "find", "find_linear"}

\* the struct maclabel_parser a caller (or the call it made) works on: its own
\* automatic object, shared with nobody
OwnParser_shared(c) == 1

OwnParser(c) == c

\* no maclabel_parser_next call traced yet
NoTrace == [calls |-> 0, depth |-> 0, empty_line |-> FALSE]

\* a struct maclabel_parser before maclabel_parser_init
NoParser == [data |-> NULL, end |-> NULL]

\* the automatic variables of a call, at its entry
NoFrame ==
    [entry |-> NoEntry, out |-> <<>>, count |-> 0, p |-> 0, lines |-> <<>>,
     lo |-> 0, hi |-> 0, mid |-> NULL, compared |-> FALSE, cmp |-> 0, probes |-> 0,
     delegated |-> FALSE, ok |-> FALSE,
     found |-> [ret |-> FALSE, value |-> NoValue.value, value_len |-> NoValue.value_len]]

\* what maclabel_find computes for the line at lines[mid]: its end, its first
\* '=' and, when there is one, the key length and the value span
probe_line(d, end, line) ==
    LET nl == find_char(d, line, end, NL)
        line_end == IF nl = NULL THEN end ELSE nl
        eq == find_char(d, line, line_end, EQ)
    IN  [line_end |-> line_end,
         eq |-> eq,
         key_len |-> IF eq = NULL THEN 0 ELSE eq - line,
         value |-> IF eq = NULL THEN NULL ELSE eq + 1,
         value_len |-> IF eq = NULL THEN 0 ELSE line_end - (eq + 1)]

\* size_t mid = lo + (hi - lo) / 2;
midpoint(lo, hi) == lo + (hi - lo) \div 2

\* the binary-search round that keeps the midpoint in range: lo = mid
search_round_keeps_mid(d, end, lines, lo, hi, k) ==
    LET mid == midpoint(lo, hi)
        line == lines[mid + 1]
        pr == probe_line(d, end, line)
        cmp == compare_key(d, line, pr.key_len, k)
        round == [lo |-> lo, hi |-> hi, mid |-> mid, compared |-> FALSE, cmp |-> 0,
                  hit |-> FALSE, value |-> NULL, value_len |-> 0]
    IN  IF pr.eq = NULL
        THEN [round EXCEPT !.lo = mid]
        ELSE IF cmp = 0
             THEN [round EXCEPT !.compared = TRUE, !.cmp = cmp, !.hit = TRUE,
                                !.value = pr.value, !.value_len = pr.value_len]
             ELSE IF cmp < 0
                  THEN [round EXCEPT !.compared = TRUE, !.cmp = cmp, !.lo = mid]
                  ELSE [round EXCEPT !.compared = TRUE, !.cmp = cmp, !.hi = mid]

\* the binary-search round whose malformed-line branch lowers hi instead
search_round_lowers_hi(d, end, lines, lo, hi, k) ==
    LET mid == midpoint(lo, hi)
        line == lines[mid + 1]
        pr == probe_line(d, end, line)
        cmp == compare_key(d, line, pr.key_len, k)
        round == [lo |-> lo, hi |-> hi, mid |-> mid, compared |-> FALSE, cmp |-> 0,
                  hit |-> FALSE, value |-> NULL, value_len |-> 0]
    IN  IF pr.eq = NULL
        THEN [round EXCEPT !.hi = mid]
        ELSE IF cmp = 0
             THEN [round EXCEPT !.compared = TRUE, !.cmp = cmp, !.hit = TRUE,
                                !.value = pr.value, !.value_len = pr.value_len]
             ELSE IF cmp < 0
                  THEN [round EXCEPT !.compared = TRUE, !.cmp = cmp, !.lo = mid + 1]
                  ELSE [round EXCEPT !.compared = TRUE, !.cmp = cmp, !.hi = mid]

\* one round of the binary-search loop entered with lo < hi: the new lo and
\* hi, the midpoint, whether compare_key was called and what it returned, and
\* whether the round returned true with a value span
search_round(d, end, lines, lo, hi, k) ==
    LET mid == midpoint(lo, hi)
        line == lines[mid + 1]
        pr == probe_line(d, end, line)
        cmp == compare_key(d, line, pr.key_len, k)
        round == [lo |-> lo, hi |-> hi, mid |-> mid, compared |-> FALSE, cmp |-> 0,
                  hit |-> FALSE, value |-> NULL, value_len |-> 0]
    IN  IF pr.eq = NULL
        THEN [round EXCEPT !.lo = mid + 1]
        ELSE IF cmp = 0
             THEN [round EXCEPT !.compared = TRUE, !.cmp = cmp, !.hit = TRUE,
                                !.value = pr.value, !.value_len = pr.value_len]
             ELSE IF cmp < 0
                  THEN [round EXCEPT !.compared = TRUE, !.cmp = cmp, !.lo = mid + 1]
                  ELSE [round EXCEPT !.compared = TRUE, !.cmp = cmp, !.hi = mid]

----------------------------------------------------------------------------
(* Inputs *)

BoundedSeq(S, n) == UNION {[1..m -> S] : m \in 0..n}

RECURSIVE Join(_)
\* the lines of ls, each followed by '\n'
Join(ls) == IF ls = <<>> THEN <<>> ELSE Head(ls) \o <<NL>> \o Join(Tail(ls))

\* "a=1", "b=", "x" (no '=')
CallPool == { <<97, EQ, 49>>, <<98, EQ>>, <<120>> }

\* buffers of at most MaxCallLines lines of CallPool, each followed by '\n'
CallBuffers == {Join(ls) : ls \in BoundedSeq(CallPool, MaxCallLines)}

\* "a", "b"
CallKeys == { <<97>>, <<98>> }

\* NUL, '\n', '=', 'a'
Alphabet == {NUL, NL, EQ, 97}

\* every buffer of at most MaxLen bytes over Alphabet
SmallBuffers == BoundedSeq(Alphabet, MaxLen)

\* "a=1", "ab=", "b==", "\xC8=2", "x" (no '='), "=v" (empty key), "" (blank)
LinePool ==
    { <<97, EQ, 49>>, <<97, 98, EQ>>, <<98, EQ, EQ>>, <<200, EQ, 50>>,
      <<120>>, <<EQ, 118>>, <<>> }

\* buffers of at most MaxLines pool lines, the last with or without its '\n'
LineBuffers ==
    LET full == {Join(ls) : ls \in BoundedSeq(LinePool, MaxLines)}
    IN  full \cup {SubSeq(b, 1, Len(b) - 1) : b \in full \ {<<>>}}

\* "", "a", "ab", "b", "\xC8", "c"
TargetKeys == { <<>>, <<97>>, <<97, 98>>, <<98>>, <<200>>, <<99>> }

\* the i-th two-byte key of a long label; increasing in i
BigKey(i) == <<97 + (i \div 16), 97 + (i % 16)>>

\* a label of n lines "<BigKey>=v", ascending or descending, single- or double-spaced
BigBuffer(n, descending, spaced) ==
    Join([j \in 1..n |->
            LET i == IF descending THEN n + 1 - j ELSE j
            IN  (IF spaced /\ j > 1 THEN <<NL>> ELSE <<>>) \o BigKey(i) \o <<EQ, 118>>])

BigBuffers ==
    { BigBuffer(n, desc, sp) : n \in {MAX_ENTRIES - 1, MAX_ENTRIES, MAX_ENTRIES + 1},
                               desc \in BOOLEAN, sp \in BOOLEAN }

\* every key of the long labels, and one below and one above them all
BigTargets == { BigKey(i) : i \in 0..(MAX_ENTRIES + 2) }

\* sorted labels of 1..MaxSortedLines lines, and every key of them, one below
\* and one above
SortedBuffers == { BigBuffer(n, FALSE, FALSE) : n \in 1..MaxSortedLines }

SortedTargets == { BigKey(i) : i \in 0..(MaxSortedLines + 1) }

\* the first, a middle and the last key of the long labels, one below and one
\* above them all
FewBigTargets ==
    { BigKey(0), BigKey(1), BigKey(MAX_ENTRIES \div 2), BigKey(MAX_ENTRIES - 1),
      BigKey(MAX_ENTRIES + 2) }

CmpAlphabet == {NUL, 97, 200}

----------------------------------------------------------------------------
(* State machine *)

InitWith(d, k, arg) ==
    /\ data = d
    /\ key = k
    /\ parser = maclabel_parser_init(d, Len(d))
    /\ entry = NoEntry
    /\ ret = "none"
    /\ yielded = <<>>
    /\ called = {}
    /\ count_ret = 0
    /\ validate_ret = FALSE
    /\ find_ret = [ret |-> FALSE] @@ NoValue
    /\ linear_ret = [ret |-> FALSE] @@ NoValue
    /\ cmp_arg = arg
    /\ cmp_ret = 0
    /\ passes = <<>>
    /\ resets = <<>>
    /\ streq_ret = FALSE
    /\ op = [c \in Callers |-> "none"]
    /\ pc = [c \in Callers |-> "start"]
    /\ parsers = [c \in Callers |-> NoParser]
    /\ frame = [c \in Callers |-> NoFrame]
    /\ overlapped = FALSE
    /\ match_ret = FALSE
    /\ late_calls = 0
    /\ trace = NoTrace

NoArg == [key |-> 0, key_len |-> 0]

\* a caller holding a buffer, about to iterate, count or validate it
Init == \E d \in SmallBuffers : InitWith(d, <<>>, NoArg)

\* a caller holding a label and a key to look up
InitFind ==
    \/ \E d \in LineBuffers, k \in TargetKeys : InitWith(d, k, NoArg)
    \/ \E d \in BigBuffers, k \in BigTargets : InitWith(d, k, NoArg)

\* a caller comparing a slice of a buffer with a key
InitCmp ==
    \E d \in BoundedSeq(CmpAlphabet, MaxCmpLen),
       k \in BoundedSeq(CmpAlphabet \ {NUL}, MaxKeyLen) :
        \E off \in 0..Len(d) : \E n \in 0..(Len(d) - off) :
            InitWith(d, k, [key |-> off, key_len |-> n])

\* one call maclabel_parser_next(&parser, &entry) of the caller's while-loop
ParserNext ==
    LET r == maclabel_parser_next(data, parser, entry)
    IN  /\ parser' = r.parser
        /\ entry' = r.entry
        /\ ret' = IF r.ret THEN "true" ELSE "false"
        /\ yielded' = IF r.ret THEN Append(yielded, r.entry) ELSE yielded
        /\ passes' = IF ~r.ret /\ ret # "false" THEN Append(passes, yielded) ELSE passes
        /\ UNCHANGED <<data, key, called, count_ret, validate_ret, find_ret,
                       linear_ret, cmp_arg, cmp_ret, resets, streq_ret, callvars, latevars>>

\* the caller's cursor left where it is when the caller starts over
ParserInit_keeps_cursor ==
    /\ Len(resets) < MaxResets
    /\ resets' = Append(resets, parser.data)
    /\ ret' = "none"
    /\ yielded' = <<>>
    /\ UNCHANGED <<data, key, parser, entry, called, count_ret, validate_ret, find_ret,
                   linear_ret, cmp_arg, cmp_ret, passes, streq_ret, callvars, latevars>>

\* the caller calls maclabel_parser_init(&parser, data, len) again, at any point
\* of an iteration, and starts its while-loop over; entry keeps what it held
ParserInit ==
    /\ Len(resets) < MaxResets
    /\ resets' = Append(resets, parser.data)
    /\ parser' = maclabel_parser_init(data, Len(data))
    /\ ret' = "none"
    /\ yielded' = <<>>
    /\ UNCHANGED <<data, key, entry, called, count_ret, validate_ret, find_ret,
                   linear_ret, cmp_arg, cmp_ret, passes, streq_ret, callvars, latevars>>

Count ==
    /\ "count" \notin called
    /\ called' = called \cup {"count"}
    /\ count_ret' = maclabel_count(data, Len(data))
    /\ UNCHANGED <<data, key, parser, entry, ret, yielded, validate_ret, find_ret,
                   linear_ret, cmp_arg, cmp_ret,
                   passes, resets, streq_ret, callvars, latevars>>

Validate ==
    /\ "validate" \notin called
    /\ called' = called \cup {"validate"}
    /\ validate_ret' = maclabel_validate(data, Len(data))
    /\ UNCHANGED <<data, key, parser, entry, ret, yielded, count_ret, find_ret,
                   linear_ret, cmp_arg, cmp_ret,
                   passes, resets, streq_ret, callvars, latevars>>

Find ==
    /\ "find" \notin called
    /\ called' = called \cup {"find"}
    /\ find_ret' = maclabel_find(data, Len(data), key, NoValue)
    /\ UNCHANGED <<data, key, parser, entry, ret, yielded, count_ret, validate_ret,
                   linear_ret, cmp_arg, cmp_ret,
                   passes, resets, streq_ret, callvars, latevars>>

FindLinear ==
    /\ "find_linear" \notin called
    /\ called' = called \cup {"find_linear"}
    /\ linear_ret' = maclabel_find_linear(data, Len(data), key, NoValue)
    /\ UNCHANGED <<data, key, parser, entry, ret, yielded, count_ret, validate_ret,
                   find_ret, cmp_arg, cmp_ret,
                   passes, resets, streq_ret, callvars, latevars>>

CompareKey ==
    /\ "compare_key" \notin called
    /\ called' = called \cup {"compare_key"}
    /\ cmp_ret' = compare_key(data, cmp_arg.key, cmp_arg.key_len, key)
    /\ UNCHANGED <<data, key, parser, entry, ret, yielded, count_ret, validate_ret,
                   find_ret, linear_ret, cmp_arg,
                   passes, resets, streq_ret, callvars, latevars>>

\* the caller calls maclabel_parser_next again after it has returned false
ParserNextLate ==
    /\ ret = "false"
    /\ late_calls < MaxLateCalls
    /\ late_calls' = late_calls + 1
    /\ LET r == maclabel_parser_next(data, parser, entry)
       IN  /\ parser' = r.parser
           /\ entry' = r.entry
           /\ ret' = IF r.ret THEN "true" ELSE "false"
           /\ yielded' = IF r.ret THEN Append(yielded, r.entry) ELSE yielded
    /\ UNCHANGED <<data, key, called, count_ret, validate_ret, find_ret, linear_ret,
                   cmp_arg, cmp_ret, passes, resets, streq_ret, callvars, match_ret,
                   trace>>

\* a call of maclabel_parser_next with its stack observed; the build either
\* turns the tail calls into jumps (one activation is live) or compiles them
\* as calls
ParserNextTraced ==
    \E tail_calls_eliminated \in BOOLEAN :
        LET r == maclabel_parser_next(data, parser, entry)
            t == next_trace(data, parser)
        IN  /\ parser' = r.parser
            /\ entry' = r.entry
            /\ ret' = IF r.ret THEN "true" ELSE "false"
            /\ yielded' = IF r.ret THEN Append(yielded, r.entry) ELSE yielded
            /\ trace' = [t EXCEPT !.depth = IF tail_calls_eliminated THEN 1 ELSE @]
            /\ UNCHANGED <<data, key, called, count_ret, validate_ret, find_ret,
                           linear_ret, cmp_arg, cmp_ret, passes, resets, streq_ret,
                           callvars, match_ret, late_calls>>

Next == ParserNext \/ Count \/ Validate

NextTraced == ParserNextTraced

NextLate == ParserNext \/ ParserNextLate

NextReinit == ParserNext \/ ParserInit

\* one operation per caller: an iteration, or one whole-buffer call
NextOne ==
    \/ called = {} /\ ParserNext
    \/ called = {} /\ ret = "none" /\ (Count \/ Validate \/ Find \/ FindLinear)

----------------------------------------------------------------------------
(* Steps of the callers *)

Running(c) == pc[c] \notin {"start", "done"}

\* what every step of caller c leaves alone, and the record of an overlap
Stepped(c) ==
    /\ overlapped' = (overlapped \/ \E o \in Callers \ {c} : Running(o))
    /\ UNCHANGED <<data, key, wholevars>>

\* caller c calls operation o: the call's automatic variables come to exist,
\* and the cursor is initialised where the operation has one
CallOp(c, o) ==
    /\ pc[c] = "start"
    /\ op' = [op EXCEPT ![c] = o]
    /\ pc' = [pc EXCEPT ![c] = CASE o \in {"iterate", "count", "find_linear"} -> "next"
                                 [] o = "validate" -> "line"
                                 [] o = "find" -> "index"]
    /\ parsers' = IF o \in {"iterate", "count", "find_linear"}
                  THEN [parsers EXCEPT ![OwnParser(c)] = maclabel_parser_init(data, Len(data))]
                  ELSE parsers
    /\ frame' = [frame EXCEPT ![c] = NoFrame]
    /\ UNCHANGED <<data, key, wholevars, overlapped>>

Call(c) == \E o \in Ops : CallOp(c, o)

\* one round of the caller's while (maclabel_parser_next(&parser, &entry))
IterateStep(c) ==
    /\ op[c] = "iterate" /\ pc[c] = "next"
    /\ LET r == maclabel_parser_next(data, parsers[OwnParser(c)], frame[c].entry)
       IN  /\ parsers' = [parsers EXCEPT ![OwnParser(c)] = r.parser]
           /\ frame' = [frame EXCEPT ![c].entry = r.entry,
                                     ![c].out = IF r.ret THEN Append(@, r.entry) ELSE @]
           /\ pc' = [pc EXCEPT ![c] = IF r.ret THEN "next" ELSE "done"]
    /\ UNCHANGED op
    /\ Stepped(c)

\* one round of maclabel_count's loop
CountStep(c) ==
    /\ op[c] = "count" /\ pc[c] = "next"
    /\ LET r == maclabel_parser_next(data, parsers[OwnParser(c)], frame[c].entry)
       IN  /\ parsers' = [parsers EXCEPT ![OwnParser(c)] = r.parser]
           /\ frame' = [frame EXCEPT ![c].entry = r.entry,
                                     ![c].count = IF r.ret THEN @ + 1 ELSE @]
           /\ pc' = [pc EXCEPT ![c] = IF r.ret THEN "next" ELSE "done"]
    /\ UNCHANGED op
    /\ Stepped(c)

\* one round of maclabel_find_linear's loop, called directly or by maclabel_find
LinearStep(c) ==
    /\ \/ op[c] = "find_linear" /\ pc[c] = "next"
       \/ op[c] = "find" /\ pc[c] = "linear"
    /\ LET r == maclabel_parser_next(data, parsers[OwnParser(c)], frame[c].entry)
           key_len == str_len(key)
           match == /\ r.ret
                    /\ r.entry.key_len = key_len
                    /\ KeyBytesMatch(data, r.entry, key, key_len, 0)
       IN  /\ parsers' = [parsers EXCEPT ![OwnParser(c)] = r.parser]
           /\ frame' = [frame EXCEPT
                          ![c].entry = r.entry,
                          ![c].found = IF match
                                       THEN [ret |-> TRUE, value |-> r.entry.value,
                                             value_len |-> r.entry.value_len]
                                       ELSE @]
           /\ pc' = [pc EXCEPT ![c] = IF r.ret /\ ~match THEN @ ELSE "done"]
    /\ UNCHANGED op
    /\ Stepped(c)

\* one round of maclabel_validate's loop
ValidateStep(c) ==
    /\ op[c] = "validate" /\ pc[c] = "line"
    /\ LET p == frame[c].p
           end == Len(data)
           line_start == p
           nl == find_char(data, p, end, NL)
           line_end == IF nl = NULL THEN end ELSE nl
           eq == find_char(data, line_start, line_end, EQ)
           bad == \/ HasEmbeddedNull(data, line_start, line_end)
                  \/ eq = NULL
                  \/ eq = line_start
       IN  IF p < end
           THEN IF ByteAt(data, p) = NL
                THEN /\ frame' = [frame EXCEPT ![c].p = p + 1]
                     /\ UNCHANGED pc
                ELSE IF bad
                     THEN /\ frame' = [frame EXCEPT ![c].ok = FALSE]
                          /\ pc' = [pc EXCEPT ![c] = "done"]
                     ELSE /\ frame' = [frame EXCEPT
                                         ![c].p = IF line_end < end THEN line_end + 1 ELSE end]
                          /\ UNCHANGED pc
           ELSE /\ frame' = [frame EXCEPT ![c].ok = TRUE]
                /\ pc' = [pc EXCEPT ![c] = "done"]
    /\ UNCHANGED <<op, parsers>>
    /\ Stepped(c)

\* one round of maclabel_find's index-building loop
IndexStep(c) ==
    /\ op[c] = "find" /\ pc[c] = "index"
    /\ LET p == frame[c].p
           end == Len(data)
           lines == frame[c].lines
           p0 == SkipNewlines(data, p, end)
           p1 == SkipLine(data, p0, end)
       IN  IF p < end /\ Len(lines) < MAX_ENTRIES /\ p0 < end
           THEN /\ frame' = [frame EXCEPT ![c].lines = Append(lines, p0),
                                          ![c].p = IF p1 < end THEN p1 + 1 ELSE p1]
                /\ UNCHANGED pc
           ELSE /\ frame' = [frame EXCEPT ![c].p = IF p < end /\ Len(lines) < MAX_ENTRIES
                                                   THEN p0 ELSE p]
                /\ pc' = [pc EXCEPT ![c] = "check"]
    /\ UNCHANGED <<op, parsers>>
    /\ Stepped(c)

\* if (line_count >= MAX_ENTRIES) return maclabel_find_linear(...); else the
\* binary search starts with lo = 0, hi = line_count
CheckStep(c) ==
    /\ op[c] = "find" /\ pc[c] = "check"
    /\ IF Len(frame[c].lines) >= MAX_ENTRIES
       THEN /\ frame' = [frame EXCEPT ![c].delegated = TRUE]
            /\ parsers' = [parsers EXCEPT
                             ![OwnParser(c)] = maclabel_parser_init(data, Len(data))]
            /\ pc' = [pc EXCEPT ![c] = "linear"]
       ELSE /\ frame' = [frame EXCEPT ![c].lo = 0, ![c].hi = Len(frame[c].lines)]
            /\ UNCHANGED parsers
            /\ pc' = [pc EXCEPT ![c] = "search"]
    /\ UNCHANGED op
    /\ Stepped(c)

\* one round of maclabel_find's binary-search loop
SearchStep(c) ==
    /\ op[c] = "find" /\ pc[c] = "search"
    /\ IF frame[c].lo < frame[c].hi
       THEN LET r == search_round(data, Len(data), frame[c].lines,
                                  frame[c].lo, frame[c].hi, key)
            IN  /\ frame' = [frame EXCEPT
                               ![c].lo = r.lo,
                               ![c].hi = r.hi,
                               ![c].mid = r.mid,
                               ![c].compared = r.compared,
                               ![c].cmp = r.cmp,
                               ![c].probes = @ + 1,
                               ![c].found = IF r.hit
                                            THEN [ret |-> TRUE, value |-> r.value,
                                                  value_len |-> r.value_len]
                                            ELSE @]
                /\ pc' = [pc EXCEPT ![c] = IF r.hit THEN "done" ELSE "search"]
       ELSE /\ UNCHANGED frame
            /\ pc' = [pc EXCEPT ![c] = "done"]
    /\ UNCHANGED <<op, parsers>>
    /\ Stepped(c)

\* any caller takes its next step
NextCallers ==
    \E c \in Callers :
        \/ Call(c)
        \/ IterateStep(c)
        \/ CountStep(c)
        \/ LinearStep(c)
        \/ ValidateStep(c)
        \/ IndexStep(c)
        \/ CheckStep(c)
        \/ SearchStep(c)

\* one caller runs maclabel_find
NextFindSteps ==
    \/ CallOp(1, "find")
    \/ IndexStep(1)
    \/ CheckStep(1)
    \/ SearchStep(1)
    \/ LinearStep(1)

NextFind == Find \/ FindLinear

StrEq ==
    /\ "streq" \notin called
    /\ called' = called \cup {"streq"}
    /\ streq_ret' = maclabel_streq(data, cmp_arg.key, cmp_arg.key_len, key)
    /\ UNCHANGED <<data, key, parser, entry, ret, yielded, count_ret, validate_ret,
                   find_ret, linear_ret, cmp_arg, cmp_ret, passes, resets, callvars, latevars>>

ExactMatch ==
    /\ "exact_match" \notin called
    /\ called' = called \cup {"exact_match"}
    /\ match_ret' = exact_match(data, cmp_arg.key, cmp_arg.key_len, key)
    /\ UNCHANGED <<data, key, parser, entry, ret, yielded, count_ret, validate_ret,
                   find_ret, linear_ret, cmp_arg, cmp_ret, passes, resets, streq_ret,
                   callvars, late_calls, trace>>

NextCmp == CompareKey \/ StrEq \/ ExactMatch

Spec == Init /\ [][Next]_vars

\* a caller that iterates a label and may start over
InitReinit == \E d \in LineBuffers : InitWith(d, <<>>, NoArg)

SpecReinit == InitReinit /\ [][NextReinit]_vars

\* a caller whose while-loop keeps calling maclabel_parser_next
InitIterate == \E d \in BoundedSeq(Alphabet, MaxLiveLen) : InitWith(d, <<>>, NoArg)

SpecIterate == InitIterate /\ [][ParserNext]_vars /\ WF_vars(ParserNext)

\* a caller holding a label and a key, about to run one operation on it
InitOne ==
    \/ \E d \in LineBuffers, k \in TargetKeys : InitWith(d, k, NoArg)
    \/ \E d \in BigBuffers, k \in {BigKey(1), BigKey(MAX_ENTRIES), BigKey(MAX_ENTRIES + 2)} :
           InitWith(d, k, NoArg)

SpecOne == InitOne /\ [][NextOne]_vars

InitCallers == \E d \in CallBuffers, k \in CallKeys : InitWith(d, k, NoArg)

SpecCallers == InitCallers /\ [][NextCallers]_vars

SpecFindSteps == InitFind /\ [][NextFindSteps]_vars

SpecLate == Init /\ [][NextLate]_vars

\* a caller of maclabel_find that keeps running until the call returns
InitFindLive ==
    \/ \E d \in CallBuffers, k \in CallKeys : InitWith(d, k, NoArg)
    \/ \E d \in SortedBuffers, k \in SortedTargets : InitWith(d, k, NoArg)
    \/ \E d \in BigBuffers, k \in FewBigTargets : InitWith(d, k, NoArg)

SpecFindLive == InitFindLive /\ [][NextFindSteps]_vars /\ WF_vars(NextFindSteps)

SpecTraced == Init /\ [][NextTraced]_vars

SpecFind == InitFind /\ [][NextFind]_vars

SpecCmp == InitCmp /\ [][NextCmp]_vars

----------------------------------------------------------------------------
(* The wire format, stated on the bytes of the buffer. *)

\* offsets at which a non-blank line starts
LineStarts(d) ==
    {s \in 0..(Len(d) - 1) : d[s + 1] # NL /\ (s = 0 \/ d[s] = NL)}

\* one past the last byte of the line starting at s
LineEnd(d, s) ==
    CHOOSE e \in (s + 1)..Len(d) :
        /\ e = Len(d) \/ d[e + 1] = NL
        /\ \A i \in (s + 1)..e : d[i] # NL

HasEq(d, s) == \E i \in (s + 1)..LineEnd(d, s) : d[i] = EQ

\* offset of the first '=' of the line starting at s (which has one)
FirstEq(d, s) ==
    CHOOSE q \in s..(LineEnd(d, s) - 1) :
        /\ d[q + 1] = EQ
        /\ \A i \in (s + 1)..q : d[i] # EQ

\* starts of the lines that contain '='
EqLineStarts(d) == {s \in LineStarts(d) : HasEq(d, s)}

\* the bytes of the span [from, from + n)
Bytes(d, from, n) == SubSeq(d, from + 1, from + n)

KeyOf(d, s) == Bytes(d, s, FirstEq(d, s) - s)

\* the entry of the line starting at s
EntryOf(d, s) ==
    [key |-> s, key_len |-> FirstEq(d, s) - s,
     value |-> FirstEq(d, s) + 1, value_len |-> LineEnd(d, s) - (FirstEq(d, s) + 1)]

HasBlankLine(d) == \E i \in 1..Len(d) : d[i] = NL /\ (i = 1 \/ d[i - 1] = NL)

\* a < b in unsigned byte-lexicographic order (a proper prefix is less)
LexLess(a, b) ==
    \E i \in 1..Len(b) :
        /\ \A j \in 1..(i - 1) : j <= Len(a) /\ a[j] = b[j]
        /\ i > Len(a) \/ a[i] < b[i]

YieldedKeys == {yielded[i].key : i \in 1..Len(yielded)}

----------------------------------------------------------------------------
(* Entry Iterator *)

\* C1: iterating from a fresh cursor until maclabel_parser_next returns false
\* yields, in buffer order and once each, exactly the non-blank lines that
\* contain '='; blank lines and lines without '=' yield nothing, and the lines
\* after them are still yielded.  During the iteration the entries received are
\* exactly those of the lines before the cursor.
C1_IteratorYieldsEqLines ==
    /\ \A i, j \in 1..Len(yielded) : i < j => yielded[i].key < yielded[j].key
    /\ YieldedKeys = {s \in EqLineStarts(data) : s < parser.data}
    /\ ret = "false" => YieldedKeys = EqLineStarts(data)

\* an exhausted iteration over a buffer with a blank line and a line without
\* '=', both before a line that was yielded
C1_Witness ==
    /\ ret = "false"
    /\ HasBlankLine(data)
    /\ \E s \in LineStarts(data) \ EqLineStarts(data) :
           \E i \in 1..Len(yielded) : yielded[i].key > s

\* C2: every yielded entry is split at the first '=' of its line: the key is
\* the bytes before it, the value the bytes after it up to the line's end; so
\* the key holds neither '=' nor '\n', the value holds no '\n', and a line
\* "key=" yields value_len 0.
C2_SplitAtFirstEq ==
    \A n \in 1..Len(yielded) :
        LET e == yielded[n]
        IN  /\ e.key \in EqLineStarts(data)
            /\ e = EntryOf(data, e.key)
            /\ e.key + e.key_len + 1 = e.value
            /\ e.value + e.value_len = LineEnd(data, e.key)
            /\ \A i \in 1..e.key_len : Bytes(data, e.key, e.key_len)[i] \notin {EQ, NL}
            /\ \A i \in 1..e.value_len : Bytes(data, e.value, e.value_len)[i] # NL
            /\ data[LineEnd(data, e.key)] = EQ /\ FirstEq(data, e.key) = LineEnd(data, e.key) - 1
               => e.value_len = 0

\* an entry whose value holds a second '=' was yielded after an entry with an
\* empty value
C2_Witness ==
    \E m, n \in 1..Len(yielded) :
        /\ m < n
        /\ yielded[m].value_len = 0
        /\ yielded[n].key_len > 0
        /\ \E i \in 1..yielded[n].value_len :
               Bytes(data, yielded[n].value, yielded[n].value_len)[i] = EQ

\* C3: every entry yielded by the iterator has a non-empty key; a line whose
\* first byte is '=' is skipped.
C3_YieldedKeyNonEmpty ==
    \A n \in 1..Len(yielded) : yielded[n].key_len >= 1

----------------------------------------------------------------------------
(* Validator *)

\* the line starting at s: no NUL byte, a '=', at least one byte before it
LineValid(d, s) ==
    /\ \A i \in (s + 1)..LineEnd(d, s) : d[i] # NUL
    /\ HasEq(d, s)
    /\ d[s + 1] # EQ

\* C4: maclabel_validate returns true iff every non-blank line holds no NUL
\* byte, holds a '=' and has a byte before its first '='; blank lines never
\* make a buffer invalid, one violating line anywhere does.
C4_ValidateIff ==
    "validate" \in called =>
        (validate_ret <=> \A s \in LineStarts(data) : LineValid(data, s))

\* a buffer with a blank line and a well-formed line was found valid
C4_Witness ==
    /\ "validate" \in called
    /\ validate_ret
    /\ HasBlankLine(data)
    /\ LineStarts(data) # {}

----------------------------------------------------------------------------
(* Counter *)

\* C9: maclabel_count equals the number of times maclabel_parser_next returns
\* true over the same buffer from a fresh cursor; lines without '=' are not
\* counted.
C9_CountEqualsYielded ==
    "count" \in called =>
        /\ ret = "false" => count_ret = Len(yielded)
        /\ count_ret = Cardinality(EqLineStarts(data))

\* counted and iterated to exhaustion, a buffer with a line without '=' and
\* an entry
C9_Witness ==
    /\ "count" \in called
    /\ ret = "false"
    /\ count_ret >= 1
    /\ LineStarts(data) # EqLineStarts(data)

----------------------------------------------------------------------------
(* Lookup *)

\* what a lookup returns when it finds the line starting at s
Found(d, s) ==
    [ret |-> TRUE, value |-> EntryOf(d, s).value, value_len |-> EntryOf(d, s).value_len]

\* starts of the lines whose key is exactly k
Matches(d, k) == {s \in EqLineStarts(d) : KeyOf(d, s) = k}

\* the keys of the lines that have one are strictly increasing in buffer order
KeysIncreasing(d) ==
    \A s, t \in EqLineStarts(d) : s < t => LexLess(KeyOf(d, s), KeyOf(d, t))

\* every non-blank line has a '=' and a byte before it
AllWellFormed(d) ==
    \A s \in LineStarts(d) : HasEq(d, s) /\ d[s + 1] # EQ

WithinCapacity(d) == Cardinality(LineStarts(d)) <= MAX_ENTRIES

\* C5: on a buffer whose non-blank lines are all well-formed and whose keys
\* are strictly increasing, maclabel_find returns true with the value span of
\* the entry whose key equals the target if there is one, and false otherwise,
\* whatever the number of lines.
C5_FindOnSortedLabel ==
    "find" \in called /\ AllWellFormed(data) /\ KeysIncreasing(data) =>
        IF Matches(data, key) = {}
        THEN ~find_ret.ret
        ELSE \E s \in Matches(data, key) : find_ret = Found(data, s)

\* the binary search found the last of three or more sorted lines, a key with
\* a byte above 127
C5_Witness ==
    /\ "find" \in called
    /\ AllWellFormed(data) /\ KeysIncreasing(data)
    /\ Cardinality(LineStarts(data)) >= 3
    /\ find_ret.ret
    /\ \A s \in LineStarts(data) : s < find_ret.value
    /\ \E i \in 1..Len(key) : key[i] > 127

\* C6: on a buffer sorted by key with at most MAX_ENTRIES lines, maclabel_find
\* and maclabel_find_linear return identical results for every key.
C6_FindAgreesWithLinear ==
    /\ {"find", "find_linear"} \subseteq called
    /\ KeysIncreasing(data)
    /\ WithinCapacity(data)
    => find_ret = linear_ret

\* C7: maclabel_find_linear returns true with the value span of the first
\* entry in buffer order whose key has the target's length and bytes, sorted
\* buffer or not, and false if no entry has.
C7_LinearFindsFirstMatch ==
    "find_linear" \in called =>
        IF Matches(data, key) = {}
        THEN ~linear_ret.ret
        ELSE \E s \in Matches(data, key) :
                /\ \A t \in Matches(data, key) : s <= t
                /\ linear_ret = Found(data, s)

\* found in an unsorted buffer that holds the key twice, after a line that does
\* not match
C7_Witness ==
    /\ "find_linear" \in called
    /\ linear_ret.ret
    /\ ~KeysIncreasing(data)
    /\ Cardinality(Matches(data, key)) >= 2
    /\ \E s \in EqLineStarts(data) : s < linear_ret.value /\ KeyOf(data, s) # key

\* C8: when the buffer holds more non-blank lines than MAX_ENTRIES,
\* maclabel_find returns exactly what maclabel_find_linear returns on the whole
\* buffer, so an entry after the 64th line is still found.
C8_FallbackIsLinear ==
    /\ {"find", "find_linear"} \subseteq called
    /\ Cardinality(LineStarts(data)) > MAX_ENTRIES
    => /\ find_ret = linear_ret
       /\ Matches(data, key) # {} => find_ret.ret

\* found after the 64th line of a buffer that is not sorted
C8_Witness ==
    /\ {"find", "find_linear"} \subseteq called
    /\ find_ret.ret
    /\ ~KeysIncreasing(data)
    /\ Cardinality({s \in LineStarts(data) : s < find_ret.value}) > MAX_ENTRIES

----------------------------------------------------------------------------
(* Key Comparator *)

\* the slice compare_key was given
CmpSlice == Bytes(data, cmp_arg.key, cmp_arg.key_len)

\* C10: compare_key returns a negative value, zero or a positive value exactly
\* when the slice is less than, equal to or greater than the NUL-terminated
\* target in unsigned byte-lexicographic order over the full strings, a proper
\* prefix being less.
C10_CompareKeyIsLexOrder ==
    "compare_key" \in called =>
        /\ cmp_ret < 0 <=> LexLess(CmpSlice, key)
        /\ cmp_ret = 0 <=> CmpSlice = key
        /\ cmp_ret > 0 <=> LexLess(key, CmpSlice)

\* a non-empty slice from inside the buffer, a proper prefix of the target,
\* compared less
C10_Witness ==
    /\ "compare_key" \in called
    /\ cmp_ret < 0
    /\ cmp_arg.key > 0 /\ cmp_arg.key_len > 0
    /\ Len(key) > cmp_arg.key_len
    /\ CmpSlice = SubSeq(key, 1, cmp_arg.key_len)

----------------------------------------------------------------------------
(* Restart *)

\* C11: after maclabel_parser_init from the original (data, len), at any point
\* of an iteration, iterating to exhaustion yields the same sequence of entries
\* (same key and value spans, same order) as every other complete iteration.
C11_ReinitYieldsSameSequence ==
    \A i \in 1..Len(passes) : passes[i] = passes[1]

\* two complete iterations of two or more entries, with a re-initialisation in
\* the middle of an iteration
C11_Witness ==
    /\ Len(passes) >= 2
    /\ Len(passes[1]) >= 2
    /\ \E i \in 1..Len(resets) : 0 < resets[i] /\ resets[i] < Len(data)

----------------------------------------------------------------------------
(* Finiteness of the iteration *)

\* C13: on a freshly initialised cursor, repeated calls of
\* maclabel_parser_next eventually return false, and no more calls return true
\* than the buffer has non-blank lines.
C13_IterationIsFinite ==
    /\ <>(ret = "false")
    /\ [](Len(yielded) <= Cardinality(LineStarts(data)))

\* an iteration that ended after as many entries as the buffer has non-blank
\* lines, two or more
C13_Witness ==
    /\ ret = "false"
    /\ Len(yielded) >= 2
    /\ Len(yielded) = Cardinality(LineStarts(data))

----------------------------------------------------------------------------
(* Blank lines and the final terminator *)

\* d without its blank lines: without its leading '\n' bytes and without every
\* '\n' that directly follows another '\n'
RECURSIVE StripFrom(_, _)
StripFrom(d, i) ==
    IF i > Len(d) THEN <<>>
    ELSE IF d[i] = NL /\ (i = 1 \/ d[i - 1] = NL) THEN StripFrom(d, i + 1)
    ELSE <<d[i]>> \o StripFrom(d, i + 1)

Strip(d) == StripFrom(d, 1)

\* the key and value byte strings of a sequence of entries of d
EntryStrings(d, es) ==
    [i \in 1..Len(es) |->
        [key |-> Bytes(d, es[i].key, es[i].key_len),
         value |-> Bytes(d, es[i].value, es[i].value_len)]]

\* a lookup result of d with the value as a byte string
LookupString(d, r) ==
    IF r.ret THEN [ret |-> TRUE, value |-> Bytes(d, r.value, r.value_len)]
    ELSE [ret |-> FALSE, value |-> <<>>]

\* the operation this caller ran on data gave what it gives on b
SameResultsOn(b) ==
    /\ ret = "false" => EntryStrings(data, yielded) = EntryStrings(b, iterate(b))
    /\ "count" \in called => count_ret = maclabel_count(b, Len(b))
    /\ "validate" \in called => validate_ret = maclabel_validate(b, Len(b))
    /\ "find" \in called =>
           LookupString(data, find_ret) = LookupString(b, maclabel_find(b, Len(b), key, NoValue))
    /\ "find_linear" \in called =>
           LookupString(data, linear_ret)
               = LookupString(b, maclabel_find_linear(b, Len(b), key, NoValue))

\* C14: every operation gives on a buffer what it gives on the buffer with its
\* blank lines deleted (iteration: the same key and value byte strings; count,
\* validate, find, find_linear: the same results); the empty buffer and a
\* buffer of only '\n' bytes give zero entries, count 0 and validate true.
C14_BlankLinesIgnored ==
    /\ SameResultsOn(Strip(data))
    /\ LineStarts(data) = {} =>
           /\ yielded = <<>>
           /\ "count" \in called => count_ret = 0
           /\ "validate" \in called => validate_ret

\* maclabel_find found a key below a blank line, in a buffer that also starts
\* with one
C14_Witness ==
    /\ "find" \in called
    /\ find_ret.ret
    /\ data # <<>> /\ data[1] = NL
    /\ \E i \in 2..(find_ret.value - 1) : data[i] = NL /\ data[i - 1] = NL

\* C15: on a buffer that does not end in '\n', every operation gives what it
\* gives on the buffer followed by one '\n'.
C15_FinalTerminatorOptional ==
    (data = <<>> \/ data[Len(data)] # NL) => SameResultsOn(data \o <<NL>>)

\* an iteration ended on a buffer whose last line has no '\n' and was yielded
\* with a non-empty value
C15_Witness ==
    /\ ret = "false"
    /\ yielded # <<>>
    /\ yielded[Len(yielded)].value_len > 0
    /\ yielded[Len(yielded)].value + yielded[Len(yielded)].value_len = Len(data)

----------------------------------------------------------------------------
(* maclabel_streq *)

\* the slice is a proper prefix of b
ProperPrefix(a, b) == Len(a) < Len(b) /\ a = SubSeq(b, 1, Len(a))

\* C16: maclabel_streq returns true exactly when the slice length equals the
\* length of the NUL-terminated string and the slice's bytes equal the string's;
\* a slice that is a proper prefix of the string, or that extends past it,
\* compares unequal.
C16_StreqIffSameLengthAndBytes ==
    "streq" \in called =>
        /\ streq_ret <=>
               /\ cmp_arg.key_len = Len(key)
               /\ \A i \in 1..cmp_arg.key_len : data[cmp_arg.key + i] = key[i]
        /\ ProperPrefix(CmpSlice, key) => ~streq_ret
        /\ ProperPrefix(key, CmpSlice) => ~streq_ret

\* a non-empty slice from inside the buffer, a proper prefix of the string,
\* compared unequal
C16_Witness ==
    /\ "streq" \in called
    /\ cmp_arg.key > 0
    /\ cmp_arg.key_len > 0
    /\ ProperPrefix(CmpSlice, key)
    /\ ~streq_ret

----------------------------------------------------------------------------
(* Lookups and lines with an empty key *)

\* the lookup result r is a hit whose value lies in a line of d whose first
\* byte is '='
FromEmptyKeyLine(d, r) ==
    /\ r.ret
    /\ \E s \in LineStarts(d) :
           /\ s < r.value
           /\ r.value <= LineEnd(d, s)
           /\ d[s + 1] = EQ

\* C18: for every buffer and every key (the empty string included), neither
\* maclabel_find_linear nor maclabel_find returns true with a value taken from
\* a line whose first byte is '='.
C18_LookupsSkipEmptyKeyLines ==
    /\ ~FromEmptyKeyLine(data, find_ret)
    /\ ~FromEmptyKeyLine(data, linear_ret)

----------------------------------------------------------------------------
(* A hit of maclabel_find is an entry of the buffer *)

\* C20: for every buffer, sorted or not, and every key: whenever maclabel_find
\* returns true, the returned (value, value_len) is the value span of an entry
\* the iterator yields for the buffer, whose key has the target's length and
\* bytes; find never returns a value for a key that is absent.
C20_FindHitIsIteratorEntry ==
    ("find" \in called /\ find_ret.ret) =>
        /\ \E i \in 1..Len(iterate(data)) :
               LET e == iterate(data)[i]
               IN  /\ e.value = find_ret.value
                   /\ e.value_len = find_ret.value_len
                   /\ e.key_len = Len(key)
                   /\ Bytes(data, e.key, e.key_len) = key
        /\ Matches(data, key) # {}

\* maclabel_find hit a non-empty key in a buffer whose keys are not in
\* increasing order
C20_Witness ==
    /\ "find" \in called
    /\ find_ret.ret
    /\ key # <<>>
    /\ find_ret.value_len > 0
    /\ ~KeysIncreasing(data)

----------------------------------------------------------------------------
(* Callers whose operations overlap *)

\* what caller c's finished operation gave it
Result(c) ==
    CASE op[c] = "iterate" -> frame[c].out
      [] op[c] = "count" -> frame[c].count
      [] op[c] = "validate" -> frame[c].ok
      [] op[c] \in {"find", "find_linear"} -> frame[c].found

\* what operation o gives a caller that runs it alone on data and key
Alone(o) ==
    CASE o = "iterate" -> iterate(data)
      [] o = "count" -> maclabel_count(data, Len(data))
      [] o = "validate" -> maclabel_validate(data, Len(data))
      [] o = "find" -> maclabel_find(data, Len(data), key, NoValue)
      [] o = "find_linear" -> maclabel_find_linear(data, Len(data), key, NoValue)

\* a step writes neither the buffer nor the key, and leaves every caller but
\* one as it was
StepIsLocal ==
    /\ data' = data
    /\ key' = key
    /\ \E c \in Callers :
           \A o \in Callers \ {c} :
               /\ parsers'[o] = parsers[o]
               /\ frame'[o] = frame[o]
               /\ pc'[o] = pc[o]
               /\ op'[o] = op[o]

\* C12: when several callers run operations over the same buffer with their
\* steps interleaved in any order, no step writes the buffer or anything of
\* another caller, and each caller obtains the result it obtains alone.
C12_CallersDoNotInterfere ==
    /\ [](\A c \in Callers : pc[c] = "done" => Result(c) = Alone(op[c]))
    /\ [][StepIsLocal]_vars

\* an iteration that yielded two entries and a successful maclabel_find have
\* both finished after their steps overlapped
C12_Witness ==
    /\ overlapped
    /\ \A c \in Callers : pc[c] = "done"
    /\ op[1] = "iterate" /\ Len(frame[1].out) >= 2
    /\ op[2] = "find" /\ frame[2].found.ret

----------------------------------------------------------------------------
(* maclabel_find: the fallback threshold and the index *)

\* caller c's maclabel_find has built its index and chosen how to search
IndexBuilt(c) == op[c] = "find" /\ pc[c] \in {"search", "linear", "done"}

\* C17: maclabel_find delegates to the linear lookup if and only if the buffer
\* has strictly more non-blank lines than MAX_ENTRIES (64); a buffer with
\* exactly 64 or fewer is binary-searched over the index.
C17_DelegatesIffOverCapacity ==
    \A c \in Callers :
        IndexBuilt(c) =>
            (frame[c].delegated <=> Cardinality(LineStarts(data)) > MAX_ENTRIES)

\* the indexed line starts in which maclabel_find finds a '='
IndexedEqLines(c) ==
    SelectSeq(frame[c].lines, LAMBDA s : probe_line(data, Len(data), s).eq # NULL)

\* C19: for every buffer within index capacity, the indexed line starts that
\* contain '=' are, in order, the key starts of the entries the iterator
\* yields, and for each such line the key length and the value span that
\* maclabel_find computes equal those of the iterator's entry.
C19_IndexAgreesWithIterator ==
    \A c \in Callers :
        (IndexBuilt(c) /\ WithinCapacity(data)) =>
            LET ls == IndexedEqLines(c)
                es == iterate(data)
            IN  /\ Len(ls) = Len(es)
                /\ \A i \in 1..Len(ls) :
                       LET pr == probe_line(data, Len(data), ls[i])
                       IN  /\ es[i].key = ls[i]
                           /\ es[i].key_len = pr.key_len
                           /\ es[i].value = pr.value
                           /\ es[i].value_len = pr.value_len

\* a binary search hit in a buffer with a blank line, an indexed line without
\* '=' and an entry with a non-empty value that ends the buffer without '\n'
C19_Witness ==
    /\ IndexBuilt(1) /\ pc[1] = "done"
    /\ ~frame[1].delegated
    /\ frame[1].found.ret
    /\ frame[1].found.value_len > 0
    /\ HasBlankLine(data)
    /\ Len(IndexedEqLines(1)) < Len(frame[1].lines)
    /\ data[Len(data)] # NL

----------------------------------------------------------------------------
(* maclabel_find: the binary search *)

\* caller c is about to inspect a midpoint line that has no '='
AtMalformedMidpoint(c) ==
    /\ op[c] = "find" /\ pc[c] = "search"
    /\ frame[c].lo < frame[c].hi
    /\ LET s == frame[c].lines[midpoint(frame[c].lo, frame[c].hi) + 1]
       IN  s \in LineStarts(data) /\ ~HasEq(data, s)

\* the round at a midpoint without '=': lo becomes mid + 1, hi stays, no
\* comparison is made, nothing is returned and the search goes on
MalformedRound(c) ==
    (AtMalformedMidpoint(c) /\ frame'[c] # frame[c]) =>
        /\ frame'[c].lo = midpoint(frame[c].lo, frame[c].hi) + 1
        /\ frame'[c].hi = frame[c].hi
        /\ ~frame'[c].compared
        /\ frame'[c].found = frame[c].found
        /\ pc'[c] = "search"

\* the binary search of caller c returned a value of a line that has a '='
HitIsOnEqLine(c) ==
    (op[c] = "find" /\ ~frame[c].delegated /\ frame[c].found.ret) =>
        \E s \in EqLineStarts(data) : frame[c].found.value = FirstEq(data, s) + 1

\* C21: in the binary search, when the midpoint line contains no '=', the
\* lower bound becomes mid + 1, the upper bound is unchanged, no comparison
\* outcome is produced for the line and the search continues; a line without
\* '=' is never returned as a match.
C21_MalformedMidpointAdvancesLo ==
    /\ [][\A c \in Callers : MalformedRound(c)]_vars
    /\ [](\A c \in Callers : HitIsOnEqLine(c))

\* a search that inspected a line without '=' first, went on above it and
\* returned a match from a later round
C21_Witness ==
    /\ op[1] = "find" /\ pc[1] = "done"
    /\ frame[1].found.ret
    /\ frame[1].probes >= 2
    /\ \E i \in 1..Len(frame[1].lines) :
           /\ frame[1].lines[i] \in LineStarts(data)
           /\ ~HasEq(data, frame[1].lines[i])
           /\ i - 1 < frame[1].mid

----------------------------------------------------------------------------
(* Spans lie inside the buffer *)

\* data <= key, key + key_len + 1 = value, value + value_len <= data + len
EntryInBuffer(d, e) ==
    /\ 0 <= e.key
    /\ e.key_len >= 0
    /\ e.key + e.key_len + 1 = e.value
    /\ e.value_len >= 0
    /\ e.value + e.value_len <= Len(d)

\* a lookup hit for key k: the matched key of str_len(k) bytes and its '='
\* precede the value inside the buffer, and the value ends inside it
LookupInBuffer(d, k, r) ==
    r.ret => EntryInBuffer(d, [key |-> r.value - 1 - Len(k), key_len |-> Len(k),
                               value |-> r.value, value_len |-> r.value_len])

\* C22: every key and value span produced by maclabel_parser_next,
\* maclabel_find_linear or maclabel_find lies inside the caller's buffer:
\* data <= key, key + key_len + 1 = value and value + value_len <= data + len.
C22_SpansInsideBuffer ==
    /\ \A i \in 1..Len(yielded) : EntryInBuffer(data, yielded[i])
    /\ ret = "true" => EntryInBuffer(data, entry)
    /\ LookupInBuffer(data, key, find_ret)
    /\ LookupInBuffer(data, key, linear_ret)

\* maclabel_find returned the value of a one-line buffer without '\n': the key
\* starts at data and the value ends at data + len
C22_Witness ==
    /\ "find" \in called
    /\ find_ret.ret
    /\ find_ret.value_len > 0
    /\ find_ret.value - 1 - Len(key) = 0
    /\ Len(key) > 0
    /\ find_ret.value + find_ret.value_len = Len(data)

----------------------------------------------------------------------------
(* The cursor of an iteration *)

\* just past the line starting at s and its '\n', if it has one
PastLine(d, s) == IF LineEnd(d, s) < Len(d) THEN LineEnd(d, s) + 1 ELSE Len(d)

\* data_start <= parser->data <= parser->end = data_start + len, and the
\* cursor is at the end after a false return
CursorInRange ==
    /\ 0 <= parser.data
    /\ parser.data <= parser.end
    /\ parser.end = Len(data)
    /\ ret = "false" => parser.data = parser.end

\* a step never moves the end nor moves the cursor back; a call that yields
\* an entry moves the cursor forward, to just past the yielded line
CursorAdvances ==
    /\ parser'.end = parser.end
    /\ parser'.data >= parser.data
    /\ yielded' # yielded =>
           /\ parser'.data > parser.data
           /\ entry'.key \in LineStarts(data)
           /\ parser'.data = PastLine(data, entry'.key)

\* C23: in every state of an iteration data_start <= parser->data <=
\* parser->end and parser->end never changes; parser->data never decreases,
\* strictly increases on every call that returns true, to just past the
\* yielded line and its terminator, and equals parser->end whenever a call
\* returns false.
C23_CursorMonotoneInRange ==
    /\ []CursorInRange
    /\ [][CursorAdvances]_vars

\* a second entry was yielded after a skipped line, and the cursor is still
\* inside the buffer
C23_Witness ==
    /\ ret = "true"
    /\ Len(yielded) = 2
    /\ yielded[2].key > PastLine(data, yielded[1].key)
    /\ parser.data < parser.end

----------------------------------------------------------------------------
(* Calls after exhaustion *)

\* from a state in which the last call returned false, a step (a further call
\* without re-initialisation) returns false and writes neither the cursor nor
\* the entry, and yields nothing
StaysExhausted ==
    ret = "false" =>
        /\ ret' = "false"
        /\ parser' = parser
        /\ entry' = entry
        /\ yielded' = yielded

\* C24: once maclabel_parser_next has returned false for a cursor, every
\* later call on that cursor without re-initialisation also returns false
\* and leaves the cursor and the entry output unchanged.
C24_ExhaustionIsPermanent ==
    /\ [][StaysExhausted]_vars
    /\ [](late_calls > 0 => ret = "false")

\* two calls were made after the false return that ended the iteration of a
\* buffer whose last line, without '\n', was yielded
C24_Witness ==
    /\ late_calls = MaxLateCalls
    /\ ret = "false"
    /\ yielded # <<>>
    /\ entry = yielded[Len(yielded)]
    /\ entry.value + entry.value_len = Len(data)

----------------------------------------------------------------------------
(* maclabel_find: the index array and the search bounds *)

\* lines[] holds at most MAX_ENTRIES offsets, each of a byte of the buffer
\* that is not '\n'; while searching, 0 <= lo <= hi <= line_count
IndexInBounds(c) ==
    LET lines == frame[c].lines
    IN  /\ Len(lines) <= MAX_ENTRIES
        /\ \A i \in 1..Len(lines) :
               /\ 0 <= lines[i]
               /\ lines[i] < Len(data)
               /\ data[lines[i] + 1] # NL
        /\ (op[c] = "find" /\ pc[c] = "search") =>
               /\ 0 <= frame[c].lo
               /\ frame[c].lo <= frame[c].hi
               /\ frame[c].hi <= Len(lines)

\* a step that records a line start writes the first free slot, which is
\* below MAX_ENTRIES; a step that inspects a line reads a slot mid with
\* lo <= mid < hi <= line_count
SlotAccessInBounds(c) ==
    /\ Len(frame'[c].lines) > Len(frame[c].lines) =>
           /\ Len(frame[c].lines) < MAX_ENTRIES
           /\ SubSeq(frame'[c].lines, 1, Len(frame[c].lines)) = frame[c].lines
           /\ Len(frame'[c].lines) = Len(frame[c].lines) + 1
    /\ frame'[c].probes > frame[c].probes =>
           /\ frame[c].lo <= frame'[c].mid
           /\ frame'[c].mid < frame[c].hi
           /\ frame[c].hi <= Len(frame[c].lines)

\* C25: while maclabel_find builds its index the number of recorded line
\* starts never exceeds the capacity (every write is to a slot below 64 and
\* records the position of a byte of the buffer that is not '\n'), and during
\* the binary search lo <= mid < hi <= line_count holds, so only recorded
\* slots are read.
C25_IndexAndSearchInBounds ==
    /\ [](\A c \in Callers : IndexInBounds(c))
    /\ [][\A c \in Callers : SlotAccessInBounds(c)]_vars

\* the index is full, of a buffer that has more non-blank lines than it holds
C25_Witness ==
    /\ op[1] = "find"
    /\ Len(frame[1].lines) = MAX_ENTRIES
    /\ Cardinality(LineStarts(data)) > MAX_ENTRIES
    /\ frame[1].p < Len(data)
    /\ pc[1] = "linear"

----------------------------------------------------------------------------
(* maclabel_find: termination of the binary search *)

RECURSIVE Log2Floor(_)
Log2Floor(n) == IF n <= 1 THEN 0 ELSE 1 + Log2Floor(n \div 2)

\* a round of the search loop either returns or leaves hi - lo smaller
RangeShrinks(c) ==
    frame'[c].probes > frame[c].probes =>
        \/ pc'[c] = "done"
        \/ frame'[c].hi - frame'[c].lo < frame[c].hi - frame[c].lo

\* at most floor(log2(n)) + 1 lines of an index of n >= 1 lines are inspected
ProbesLogarithmic(c) ==
    LET n == Len(frame[c].lines)
    IN  frame[c].probes <= IF n >= 1 THEN Log2Floor(n) + 1 ELSE 0

\* C26: the binary search in maclabel_find always terminates: hi - lo
\* strictly decreases on every loop iteration (the malformed-line branch
\* included), and for an index of n >= 1 lines at most floor(log2(n)) + 1
\* lines are inspected.
C26_BinarySearchTerminates ==
    /\ [][\A c \in Callers : RangeShrinks(c)]_vars
    /\ [](\A c \in Callers : ProbesLogarithmic(c))
    /\ (pc[1] = "search") ~> (pc[1] = "done")

\* a search over 63 lines ended without a match after inspecting
\* floor(log2(63)) + 1 = 6 lines
C26_Witness ==
    /\ op[1] = "find" /\ pc[1] = "done"
    /\ ~frame[1].delegated
    /\ ~frame[1].found.ret
    /\ Len(frame[1].lines) = MAX_ENTRIES - 1
    /\ frame[1].probes = Log2Floor(Len(frame[1].lines)) + 1

----------------------------------------------------------------------------
(* What a valid buffer gives the iterator *)

NoNulIn(bs) == \A i \in 1..Len(bs) : bs[i] # NUL

\* C27: if maclabel_validate returns true for the buffer, the iterator skips
\* no non-blank line: maclabel_count equals the number of non-blank lines,
\* and every yielded entry has a non-empty key and no NUL byte in its key or
\* value.
C27_ValidBufferYieldsEveryLine ==
    ("validate" \in called /\ validate_ret) =>
        /\ "count" \in called => count_ret = Cardinality(LineStarts(data))
        /\ ret = "false" => Len(yielded) = Cardinality(LineStarts(data))
        /\ \A i \in 1..Len(yielded) :
               /\ yielded[i].key_len > 0
               /\ NoNulIn(Bytes(data, yielded[i].key, yielded[i].key_len))
               /\ NoNulIn(Bytes(data, yielded[i].value, yielded[i].value_len))

\* a buffer of two lines and a blank line validated, counted 2 and iterated
\* to the end
C27_Witness ==
    /\ "validate" \in called /\ validate_ret
    /\ "count" \in called /\ count_ret = 2
    /\ ret = "false" /\ Len(yielded) = 2
    /\ HasBlankLine(data)

----------------------------------------------------------------------------
(* The three tests of key equality *)

\* C28: for every slice and every NUL-terminated target, compare_key returns
\* 0 if and only if maclabel_streq returns true, if and only if the exact
\* match of maclabel_find_linear succeeds, that is, the slice has the target's
\* length and bytes; also when the slice contains NUL bytes.
C28_KeyEqualitiesAgree ==
    {"compare_key", "streq", "exact_match"} \subseteq called =>
        /\ (cmp_ret = 0) <=> streq_ret
        /\ streq_ret <=> match_ret
        /\ match_ret <=> (cmp_arg.key_len = Len(key) /\ CmpSlice = key)

\* the three tests were made on a slice that holds a NUL byte and has the
\* target's length
C28_Witness ==
    /\ {"compare_key", "streq", "exact_match"} \subseteq called
    /\ cmp_arg.key_len = Len(key)
    /\ \E i \in 1..Len(CmpSlice) : CmpSlice[i] = NUL
    /\ cmp_ret # 0 /\ ~streq_ret /\ ~match_ret

----------------------------------------------------------------------------
(* The recursion of maclabel_parser_next *)

\* C29: skipping blank and malformed lines does not grow the call stack:
\* during one external call of maclabel_parser_next the number of
\* simultaneously live activations is bounded by a constant (StackBound),
\* whatever the number of consecutive malformed lines.
C29_ActivationsBounded == trace.depth <= StackBound

\* the non-blank lines without '=' from offset from up to offset to
MalformedBetween(d, from, to) ==
    {s \in LineStarts(d) : from <= s /\ s < to /\ ~HasEq(d, s)}

\* a call never finds line_start == line_end, and enters one more activation
\* for each line without '=' that it passes, and no other
RecursesOnlyOnMalformed ==
    /\ ~trace'.empty_line
    /\ trace'.calls = 1 + Cardinality(MalformedBetween(data, parser.data, parser'.data))

\* C30: in maclabel_parser_next the 'empty line' branch is never taken: after
\* the leading-newline skip and the end check, line_start is at a byte that
\* is not '\n', so line_start < line_end at the test line_start == line_end,
\* and the function calls itself only for lines without '='.
C30_EmptyLineBranchUnreachable ==
    /\ [](~trace.empty_line)
    /\ [][RecursesOnlyOnMalformed]_vars

\* a call passed blank lines and two lines without '=' before it yielded an
\* entry
C30_Witness ==
    /\ ret = "true"
    /\ trace.calls = 3
    /\ HasBlankLine(SubSeq(data, 1, entry.key))

====
